---- MODULE Spec2Model ----
(***************************************************************************)
(* The inode layer of easy-fs (easy-fs/src/vfs.rs) and the kernel wrappers *)
(* over it (os/src/fs/inode.rs): directory scan and mutation, the          *)
(* Hard-Link Table, file read / write / clear with on-demand growth.       *)
(*                                                                         *)
(* The disk inode record, the directory entry layout, the bitmap           *)
(* allocator and the block cache live in files of the crate that are not   *)
(* part of the sources at hand; they are modelled from their description   *)
(* (sections 1, 3 and 6 of the specification).                             *)
(*                                                                         *)
(* TLC's integers are 32 bits wide and signed, so the program's unsigned   *)
(* 32-bit words are modelled WORD_BITS wide; every operation on them is    *)
(* taken modulo 2^WORD_BITS, and U32_MAX is the all-ones word.             *)
(***************************************************************************)
EXTENDS Integers, Sequences, FiniteSets, TLC

VARIABLES
    inodes,     \* inode id -> disk inode record [type, size, blocks]
    slots,      \* the root directory's data region, as a sequence of DirEntry
    data,       \* data block id -> its BLOCK_SZ bytes
    used,       \* data bitmap: the set of allocated data block ids
    count,      \* HARD_LINK_COUNT: BTreeMap<usize, u32>
    abort,      \* "none", or the panic that stopped the kernel
    files,      \* the open files: a sequence of OSInode objects
    tasks,      \* task id -> the system call it is in, and that call's locals
    thr,        \* thread id -> where it stands in an Inode method
    fs_lock,    \* holder of the Mutex<EasyFileSystem>, 0 when free
    tbl_lock,   \* holder of HARD_LINK_COUNT's exclusive access, 0 when free
    blk_lock,   \* holder of the block cache entry's Mutex, 0 when free
    dirty,      \* what of the block cache is modified and not yet written back
    trail,      \* the calls made so far, oldest first, where a run records them
    last        \* the most recent call and what it returned

vars == <<inodes, slots, data, used, count, abort, files, tasks,
          thr, fs_lock, tbl_lock, blk_lock, dirty, trail, last>>

\* the state of the tasks' system calls, and of the locks and the cache
kernel == <<tasks>>
sync == <<thr, fs_lock, tbl_lock, blk_lock, dirty>>

----------------------------------------------------------------------------
(* Bounds of the model *)

\* width of the modelled unsigned words
WORD_BITS == 4
\* the directory is not grown beyond this many slots
MaxDirSlots == 2
\* capacity of the inode bitmap (the root directory is inode 0)
MaxInodes == 3
\* capacity of the data bitmap
NumDataBlocks == 3
\* largest offset and longest buffer handed to read_at / write_at
MaxOffset == 1
MaxBufLen == 2
\* length of the call sequences that are followed call by call
TrailLen == 3
\* no more than this many files are open at a time
MaxOpenFiles == 2

----------------------------------------------------------------------------
(* Layout constants of the crate (layout.rs, efs.rs), scaled *)

BLOCK_SZ == 2
DIRENT_SZ == 2
NAME_LENGTH_LIMIT == 2
INODES_PER_BLOCK == 2
INODE_SZ == 1
INODE_AREA_START == 2

U32_MAX == 2^WORD_BITS - 1
AsU32(n) == n % (2^WORD_BITS)


----------------------------------------------------------------------------
(* Values *)

None == {}
Some(x) == {x}
Unwrap(o) == CHOOSE x \in o : TRUE

ROOT_ID == 0
\* names are byte strings; "" , "a" and "b"
Names == {<<>>, <<97>>, <<98>>}
\* bytes a caller writes (a fresh block reads as zero bytes)
Bytes == {1, 2}
Bufs == UNION {[1..n -> Bytes] : n \in 0..MaxBufLen}

Min(a, b) == IF a < b THEN a ELSE b
Max(a, b) == IF a > b THEN a ELSE b
CeilDiv(a, b) == (a + b - 1) \div b

----------------------------------------------------------------------------
(* DirEntry: a fixed-width name field and a 32-bit inode id *)

\* DirEntry::new: the name is copied into a zero-filled field
DirEntryNew(name, inode_id) ==
    [name |-> [i \in 1..(NAME_LENGTH_LIMIT + 1) |->
                  IF i <= Len(name) THEN name[i] ELSE 0],
     inode_id |-> AsU32(inode_id)]

\* DirEntry::name: the bytes before the first zero byte
DirEntryName(d) ==
    LET zeros == {i \in 1..Len(d.name) : d.name[i] = 0}
        len == IF zeros = {} THEN Len(d.name)
               ELSE (CHOOSE i \in zeros : \A j \in zeros : i <= j) - 1
    IN SubSeq(d.name, 1, len)

DirEntryInodeId(d) == d.inode_id

----------------------------------------------------------------------------
(* EasyFileSystem: inode positions and the two bitmaps *)

GetDiskInodePos(inode_id) ==
    [block_id |-> INODE_AREA_START + (inode_id \div INODES_PER_BLOCK),
     block_offset |-> (inode_id % INODES_PER_BLOCK) * INODE_SZ]

GetInodeId(block_id, block_offset) ==
    (block_id - INODE_AREA_START) * INODES_PER_BLOCK + (block_offset \div INODE_SZ)

\* the inode bitmap hands out the lowest free id; inode ids are never freed
AllocInode(ins) ==
    CHOOSE i \in 0..(MaxInodes - 1) :
        i \notin DOMAIN ins /\ \A j \in 0..(i - 1) : j \in DOMAIN ins

\* the data bitmap hands out the lowest free block, n times over
RECURSIVE AllocData(_, _)
AllocData(u, n) ==
    IF n = 0 THEN <<>>
    ELSE LET b == CHOOSE i \in 0..(NumDataBlocks - 1) :
                      i \notin u /\ \A j \in 0..(i - 1) : j \in u
         IN <<b>> \o AllocData(u \cup {b}, n - 1)

FreeDataBlocks(u) == NumDataBlocks - Cardinality(u)

SeqRange(s) == {s[i] : i \in 1..Len(s)}

----------------------------------------------------------------------------
(* DiskInode *)

\* DiskInode::total_blocks: blocks that back `size` bytes
TotalBlocks(size) == CeilDiv(size, BLOCK_SZ)

\* DiskInode::blocks_num_needed
BlocksNumNeeded(di, new_size) == TotalBlocks(new_size) - TotalBlocks(di.size)

\* DiskInode::initialize
Initialize(type) == [type |-> type, size |-> 0, blocks |-> <<>>]

\* DiskInode::increase_size: take the new blocks and the new size
DiskIncreaseSize(di, new_size, new_blocks) ==
    [di EXCEPT !.size = new_size, !.blocks = di.blocks \o new_blocks]

\* the byte at position k (from 0) of the inode's data
ByteAt(di, d, k) == d[di.blocks[(k \div BLOCK_SZ) + 1]][(k % BLOCK_SZ) + 1]

\* DiskInode::read_at: the bytes of [offset, offset + len) that lie below size
DiskReadAt(di, d, offset, len) ==
    LET end == Min(offset + len, di.size)
    IN IF offset >= end THEN <<>>
    ELSE [i \in 1..(end - offset) |-> ByteAt(di, d, offset + i - 1)]

\* DiskInode::write_at: the part of buf that lies below size is stored;
\* the result is the device content and the number of bytes written
DiskWriteAt(di, d, offset, buf) ==
    LET end == Min(offset + Len(buf), di.size)
        n == IF offset >= end THEN 0 ELSE end - offset
        Written(b, j) ==
            \E k \in offset..(offset + n - 1) :
                di.blocks[(k \div BLOCK_SZ) + 1] = b /\ (k % BLOCK_SZ) + 1 = j
        Src(b, j) ==
            CHOOSE k \in offset..(offset + n - 1) :
                di.blocks[(k \div BLOCK_SZ) + 1] = b /\ (k % BLOCK_SZ) + 1 = j
    IN [data |-> [b \in DOMAIN d |-> [j \in 1..BLOCK_SZ |->
                     IF Written(b, j) THEN buf[Src(b, j) - offset + 1] ELSE d[b][j]]],
        n |-> n]

\* DiskInode::clear_size: size becomes 0, every block is handed back
DiskClearSize(di) ==
    [inode |-> [di EXCEPT !.size = 0, !.blocks = <<>>], freed |-> di.blocks]


----------------------------------------------------------------------------
(* Inode (vfs.rs): the pure part of each method *)

Root == inodes[ROOT_ID]

\* the handle's inode id, as EasyFileSystem::get_inode_id recovers it
HandleId(h) == GetInodeId(h.block_id, h.block_offset)

\* Inode::new over get_disk_inode_pos
NewHandle(inode_id) == GetDiskInodePos(inode_id)

\* DirEntry::empty, and what a slot that was never written reads as
DirEntryEmpty == DirEntryNew(<<>>, 0)
SlotAt(ss, i) == IF i <= Len(ss) THEN ss[i] ELSE DirEntryEmpty

\* the scan of unlink without the break: the last slot whose name is `name`
FirstMatch_LastHit(name, dir, ss) ==
    LET file_count == dir.size \div DIRENT_SZ
        hits == {i \in 1..file_count : DirEntryName(SlotAt(ss, i)) = name}
    IN IF hits = {} THEN 0 ELSE CHOOSE i \in hits : \A j \in hits : i >= j

\* index (from 1) of the first slot whose name is `name`, 0 when there is none
FirstMatch(name, dir, ss) ==
    LET file_count == dir.size \div DIRENT_SZ
        hits == {i \in 1..file_count : DirEntryName(SlotAt(ss, i)) = name}
    IN IF hits = {} THEN 0 ELSE CHOOSE i \in hits : \A j \in hits : i <= j

\* find_inode_id with a scan that stops one slot early
FindInodeId_StopsEarly(name, dir, ss) ==
    LET file_count == dir.size \div DIRENT_SZ
        hits == {i \in 1..(file_count - 1) : DirEntryName(SlotAt(ss, i)) = name}
    IN IF hits = {} THEN None
       ELSE Some(DirEntryInodeId(SlotAt(ss, CHOOSE i \in hits : \A j \in hits : i <= j)))

\* Inode::find_inode_id
FindInodeId(name, dir, ss) ==
    LET i == FirstMatch(name, dir, ss)
    IN IF i = 0 THEN None ELSE Some(DirEntryInodeId(SlotAt(ss, i)))

\* Inode::find
Find(name, dir, ss) ==
    LET inode_id == FindInodeId(name, dir, ss)
    IN IF inode_id = None THEN None
       ELSE IF Unwrap(inode_id) = U32_MAX THEN None
       ELSE Some(NewHandle(Unwrap(inode_id)))

\* increase_size that returns early when no block has to be added
IncreaseSize_NoNewBlockNoGrowth(new_size, di, u) ==
    IF new_size < di.size \/ BlocksNumNeeded(di, new_size) = 0
    THEN [inode |-> di, used |-> u]
    ELSE LET blocks_needed == BlocksNumNeeded(di, new_size)
             v == AllocData(u, blocks_needed)
         IN [inode |-> DiskIncreaseSize(di, new_size, v),
             used |-> u \cup SeqRange(v)]

\* increase_size without the early return: the size is set in every case
IncreaseSize_AlwaysSets(new_size, di, u) ==
    IF new_size < di.size
    THEN [inode |-> [di EXCEPT !.size = new_size], used |-> u]
    ELSE LET blocks_needed == BlocksNumNeeded(di, new_size)
             v == AllocData(u, blocks_needed)
         IN [inode |-> DiskIncreaseSize(di, new_size, v),
             used |-> u \cup SeqRange(v)]

\* Inode::increase_size: the grown inode and the data bitmap after it
IncreaseSize(new_size, di, u) ==
    IF new_size < di.size THEN [inode |-> di, used |-> u]
    ELSE LET blocks_needed == BlocksNumNeeded(di, new_size)
             v == AllocData(u, blocks_needed)
         IN [inode |-> DiskIncreaseSize(di, new_size, v),
             used |-> u \cup SeqRange(v)]

\* DiskInode::write_at of one dirent at slot i (from 0): stored only when the
\* slot lies below the directory's size
WriteDirent(dir, ss, i, dirent) ==
    IF (i + 1) * DIRENT_SZ > dir.size THEN ss
    ELSE [k \in 1..Max(Len(ss), i + 1) |->
             IF k = i + 1 THEN dirent ELSE SlotAt(ss, k)]

\* the append with new_size computed as file_count * DIRENT_SZ
AppendDirent_SizeNotGrown(dir, ss, u, dirent) ==
    LET file_count == dir.size \div DIRENT_SZ
        new_size == file_count * DIRENT_SZ
        grown == IncreaseSize(AsU32(new_size), dir, u)
    IN [inode |-> grown.inode,
        used |-> grown.used,
        slots |-> WriteDirent(grown.inode, ss, file_count, dirent)]

\* the closure create and hard_link run on the root inode: grow by one slot,
\* write the dirent into the slot appended
AppendDirent(dir, ss, u, dirent) ==
    LET file_count == dir.size \div DIRENT_SZ
        new_size == (file_count + 1) * DIRENT_SZ
        grown == IncreaseSize(AsU32(new_size), dir, u)
    IN [inode |-> grown.inode,
        used |-> grown.used,
        slots |-> WriteDirent(grown.inode, ss, file_count, dirent)]

\* the table update of hard_link with or_insert(1)
LinkCount_InsertsOne(c, inode_id) ==
    IF inode_id \in DOMAIN c
    THEN [c EXCEPT ![inode_id] = AsU32(c[inode_id] + 1)]
    ELSE [k \in DOMAIN c \cup {inode_id} |-> IF k = inode_id THEN 1 ELSE c[k]]

\* the table update of hard_link: entry().and_modify(+1).or_insert(2)
LinkCount(c, inode_id) ==
    IF inode_id \in DOMAIN c
    THEN [c EXCEPT ![inode_id] = AsU32(c[inode_id] + 1)]
    ELSE [k \in DOMAIN c \cup {inode_id} |-> IF k = inode_id THEN 2 ELSE c[k]]

\* the table update of unlink with the absent entry left at one reference
UnlinkCount_InsertsOne(c, inode_id) ==
    IF inode_id \in DOMAIN c
    THEN [c EXCEPT ![inode_id] = AsU32(c[inode_id] - 1)]
    ELSE [k \in DOMAIN c \cup {inode_id} |-> IF k = inode_id THEN 1 ELSE c[k]]

\* the table update of unlink: entry().and_modify(-1).or_insert(0);
\* the subtraction wraps when overflow checks are off
UnlinkCount(c, inode_id) ==
    IF inode_id \in DOMAIN c
    THEN [c EXCEPT ![inode_id] = AsU32(c[inode_id] - 1)]
    ELSE [k \in DOMAIN c \cup {inode_id} |-> IF k = inode_id THEN 0 ELSE c[k]]

\* a tombstone that is DirEntry::empty(), inode id 0
Tombstone_ZeroId == DirEntryNew(<<>>, 0)

\* the tombstone unlink writes
Tombstone == DirEntryNew(<<>>, U32_MAX)

\* ls that leaves the tombstones out
Ls_LiveOnly(dir, ss) ==
    LET all == [i \in 1..(dir.size \div DIRENT_SZ) |-> SlotAt(ss, i)]
        Live(d) == DirEntryInodeId(d) # U32_MAX
        live == SelectSeq(all, Live)
    IN [i \in 1..Len(live) |-> DirEntryName(live[i])]

\* Inode::ls
Ls(dir, ss) ==
    [i \in 1..(dir.size \div DIRENT_SZ) |-> DirEntryName(SlotAt(ss, i))]

\* nlink with an absent entry read as 0
NlinkOf_AbsentIsZero(c, inode_id) == IF inode_id \in DOMAIN c THEN c[inode_id] ELSE 0

\* nlink (os/src/fs/inode.rs): get(&inode_id).copied().unwrap_or(1)
NlinkOf(c, inode_id) == IF inode_id \in DOMAIN c THEN c[inode_id] ELSE 1
Nlink(inode_id) == NlinkOf(count, inode_id)


----------------------------------------------------------------------------
(* The record of calls *)

\* op: the method; id: the inode the handle designates; name, arg, buf: the
\* arguments (arg is an inode id, or an offset); len: the length of the
\* buffer handed to read_at; ret: what came back, None for nothing
Call(op, id, name, arg, len, buf, ret) ==
    [op |-> op, id |-> id, name |-> name, arg |-> arg, len |-> len,
     buf |-> buf, ret |-> ret]

NoCall == Call("none", 0, <<>>, 0, 0, <<>>, None)

Running == abort = "none"

\* tasks that make system calls, and threads that call Inode methods
TaskIds == {1, 2}
ThreadIds == {1, 2}

\* a task between system calls, ret being what its last call returned;
\* a task that makes no call has pc "off"
TaskAt(pc, ret) ==
    [pc |-> pc, name |-> <<>>, new_name |-> <<>>, flags |-> {},
     inode |-> None, new_inode |-> None, id |-> 0, cnt |-> 0, ret |-> ret]

NoTasks == [t \in TaskIds |-> TaskAt("off", 0)]

\* a thread outside every Inode method
ThreadIdle == [pc |-> "idle", call |-> NoCall, seen |-> <<>>]

\* the blocks that hold disk inodes: get_block_cache(block_id, ..) of a handle
InodeBlocks == {GetDiskInodePos(i).block_id : i \in 0..(MaxInodes - 1)}

\* no thread is in a method, nothing is locked, the cache is clean
LocksFree ==
    /\ thr = [t \in ThreadIds |-> ThreadIdle]
    /\ fs_lock = 0
    /\ tbl_lock = 0
    /\ blk_lock = [b \in InodeBlocks |-> 0]
    /\ dirty = {}

\* inode ids of the files that exist
FileIds == DOMAIN inodes \ {ROOT_ID}

----------------------------------------------------------------------------
(* Initial states: a file system image whose root directory is empty, or   *)
(* holds one file packed into the image; the Hard-Link Table starts empty. *)
(* Init is the freshly made image.                                         *)

EmptyImage ==
    /\ inodes = (ROOT_ID :> Initialize("dir"))
    /\ slots = <<>>
    /\ used = {}

OneFileImage ==
    /\ inodes = (ROOT_ID :> [type |-> "dir", size |-> DIRENT_SZ, blocks |-> <<0>>])
                 @@ (1 :> Initialize("file"))
    /\ slots = <<DirEntryNew(<<98>>, 1)>>
    /\ used = {0}

Init ==
    /\ EmptyImage
    /\ data = [b \in 0..(NumDataBlocks - 1) |-> [j \in 1..BLOCK_SZ |-> 0]]
    /\ count = <<>>
    /\ abort = "none"
    /\ files = <<>>
    /\ tasks = NoTasks
    /\ LocksFree
    /\ trail = <<>>
    /\ last = NoCall

----------------------------------------------------------------------------
(* Inode::find *)
FindCall(name) ==
    /\ Running
    /\ last' = Call("find", ROOT_ID, name, 0, 0, <<>>, Find(name, Root, slots))
    /\ UNCHANGED <<inodes, slots, data, used, count, abort>>

(* Inode::ls *)
LsCall ==
    /\ Running
    /\ last' = Call("ls", ROOT_ID, <<>>, 0, 0, <<>>, Some(Ls(Root, slots)))
    /\ UNCHANGED <<inodes, slots, data, used, count, abort>>

(* nlink *)
NlinkCall(inode_id) ==
    /\ Running
    /\ last' = Call("nlink", 0, <<>>, inode_id, 0, <<>>, Some(Nlink(inode_id)))
    /\ UNCHANGED <<inodes, slots, data, used, count, abort>>

\* the slots the directory is let grow to: one more where two tasks make
\* calls, so that each of them can add a slot to one that exists
DirSlotsBound ==
    IF \A t \in TaskIds : tasks[t].pc # "off" THEN MaxDirSlots + 1 ELSE MaxDirSlots

\* room for one more slot in the directory and in the data bitmap
CanAppend ==
    /\ Root.size \div DIRENT_SZ < DirSlotsBound
    /\ FreeDataBlocks(used) >= BlocksNumNeeded(Root, Root.size + DIRENT_SZ)

\* create that puts the new entry into the first tombstoned slot, if any
Create_ReusesTombstone(name) ==
    /\ Running
    /\ IF FindInodeId(name, Root, slots) # None
       THEN /\ last' = Call("create", ROOT_ID, name, 0, 0, <<>>, None)
            /\ UNCHANGED <<inodes, slots, data, used, count, abort>>
       ELSE /\ CanAppend
            /\ Cardinality(DOMAIN inodes) < MaxInodes
            /\ LET new_inode_id == AllocInode(inodes)
                   dirent == DirEntryNew(name, new_inode_id)
                   app == AppendDirent(Root, slots, used, dirent)
                   dead == {i \in 1..Len(slots) : slots[i] = Tombstone}
               IN /\ IF dead = {}
                     THEN /\ inodes' = (new_inode_id :> Initialize("file"))
                                       @@ [inodes EXCEPT ![ROOT_ID] = app.inode]
                          /\ slots' = app.slots
                          /\ used' = app.used
                     ELSE /\ inodes' = (new_inode_id :> Initialize("file")) @@ inodes
                          /\ slots' = [slots EXCEPT
                                          ![CHOOSE i \in dead : \A j \in dead : i <= j] = dirent]
                          /\ used' = used
                  /\ last' = Call("create", ROOT_ID, name, 0, 0, <<>>,
                                  Some(NewHandle(new_inode_id)))
            /\ UNCHANGED <<data, count, abort>>

(* Inode::create *)
Create(name) ==
    /\ Running
    /\ IF FindInodeId(name, Root, slots) # None
       THEN /\ last' = Call("create", ROOT_ID, name, 0, 0, <<>>, None)
            /\ UNCHANGED <<inodes, slots, data, used, count, abort>>
       ELSE /\ CanAppend
            /\ Cardinality(DOMAIN inodes) < MaxInodes
            /\ LET new_inode_id == AllocInode(inodes)
                   dirent == DirEntryNew(name, new_inode_id)
                   app == AppendDirent(Root, slots, used, dirent)
               IN /\ inodes' = (new_inode_id :> Initialize("file"))
                                @@ [inodes EXCEPT ![ROOT_ID] = app.inode]
                  /\ slots' = app.slots
                  /\ used' = app.used
                  /\ last' = Call("create", ROOT_ID, name, 0, 0, <<>>,
                                  Some(NewHandle(new_inode_id)))
            /\ UNCHANGED <<data, count, abort>>

(* Inode::hard_link, as link() calls it on ROOT_INODE with HARD_LINK_COUNT *)
HardLink(new_name, old_inode_id) ==
    /\ Running
    /\ CanAppend
    /\ LET dirent == DirEntryNew(new_name, old_inode_id)
           app == AppendDirent(Root, slots, used, dirent)
       IN /\ inodes' = [inodes EXCEPT ![ROOT_ID] = app.inode]
          /\ slots' = app.slots
          /\ used' = app.used
    /\ count' = LinkCount(count, old_inode_id)
    /\ last' = Call("hard_link", ROOT_ID, new_name, old_inode_id, 0, <<>>, None)
    /\ UNCHANGED <<data, abort>>

(* Inode::unlink, as unlink() calls it on ROOT_INODE with HARD_LINK_COUNT.   *)
(* `*x -= 1` on a count of 0 panics in a build with overflow checks and      *)
(* wraps in one without.                                                     *)
Unlink(name) ==
    /\ Running
    /\ LET i == FirstMatch(name, Root, slots)
           inode_id == DirEntryInodeId(SlotAt(slots, i))
       IN IF i = 0
          THEN /\ last' = Call("unlink", ROOT_ID, name, 0, 0, <<>>, None)
               /\ UNCHANGED <<slots, count, abort>>
          ELSE /\ slots' = WriteDirent(Root, slots, i - 1, Tombstone)
               /\ last' = Call("unlink", ROOT_ID, name, inode_id, 0, <<>>, Some(i))
               /\ \/ /\ count' = UnlinkCount(count, inode_id)
                     /\ UNCHANGED abort
                  \/ /\ inode_id \in DOMAIN count
                     /\ count[inode_id] = 0
                     /\ abort' = "sub_overflow"
                     /\ UNCHANGED count
    /\ UNCHANGED <<inodes, data, used>>

----------------------------------------------------------------------------
(* File content: read_at, write_at and clear on a handle that find returned *)

\* the handles find hands out in the current directory
Handles == {Unwrap(Find(name, Root, slots)) : name \in {n \in Names : Find(n, Root, slots) # None}}

(* Inode::read_at *)
ReadAt(h, offset, len) ==
    /\ Running
    /\ LET id == HandleId(h)
       IN last' = Call("read_at", id, <<>>, offset, len, <<>>,
                       Some(DiskReadAt(inodes[id], data, offset, len)))
    /\ UNCHANGED <<inodes, slots, data, used, count, abort>>

\* write_at that grows the file to `offset` only
WriteAtOn_GrowsToOffset(st, h, offset, buf) ==
    LET id == HandleId(h)
        new_size == AsU32(offset)
        grown == IncreaseSize(new_size, st.inodes[id], st.used)
        w == DiskWriteAt(grown.inode, st.data, offset, buf)
    IN [st |-> [inodes |-> [st.inodes EXCEPT ![id] = grown.inode],
                used |-> grown.used,
                data |-> w.data],
        n |-> w.n]

\* the body of Inode::write_at on the disk state st = [inodes, used, data]:
\* the state it leaves and the number of bytes it reports; the grown inode
\* is computed once and handed on to the write
WriteAtOn(st, h, offset, buf) ==
    LET id == HandleId(h)
        new_size == AsU32(offset + Len(buf))
        Stored(grown) ==
            LET w == DiskWriteAt(grown.inode, st.data, offset, buf)
            IN [st |-> [inodes |-> [st.inodes EXCEPT ![id] = grown.inode],
                        used |-> grown.used,
                        data |-> w.data],
                n |-> w.n]
    IN CHOOSE r \in {Stored(grown) :
                       grown \in {IncreaseSize(new_size, st.inodes[id], st.used)}} : TRUE

\* the allocator has the blocks a growth of inode id to new_size takes
CanGrow(id, new_size) ==
    AsU32(new_size) >= inodes[id].size =>
        FreeDataBlocks(used) >= BlocksNumNeeded(inodes[id], AsU32(new_size))

(* Inode::write_at *)
WriteAt(h, offset, buf) ==
    /\ Running
    /\ CanGrow(HandleId(h), offset + Len(buf))
    /\ LET w == WriteAtOn([inodes |-> inodes, used |-> used, data |-> data],
                          h, offset, buf)
       IN /\ inodes' = w.st.inodes
          /\ used' = w.st.used
          /\ data' = w.st.data
          /\ last' = Call("write_at", HandleId(h), <<>>, offset, 0, buf, Some(w.n))
    /\ UNCHANGED <<slots, count, abort>>

\* EasyFileSystem::dealloc_data: the block is zeroed and its bit cleared
DeallocData(st, b) ==
    [data |-> [st.data EXCEPT ![b] = [j \in 1..BLOCK_SZ |-> 0]],
     used |-> st.used \ {b}]

\* the loop over the freed blocks, the first one left out
DeallocAll_SkipsFirst(st, bs) ==
    IF bs = <<>> THEN st
    ELSE [data |-> [b \in DOMAIN st.data |->
                       IF b \in SeqRange(Tail(bs)) THEN [j \in 1..BLOCK_SZ |-> 0]
                       ELSE st.data[b]],
          used |-> st.used \ SeqRange(Tail(bs))]

\* the loop of clear: every freed block goes back to the allocator
RECURSIVE DeallocAll(_, _)
DeallocAll(st, bs) ==
    IF bs = <<>> THEN st ELSE DeallocAll(DeallocData(st, Head(bs)), Tail(bs))

(* Inode::clear *)
Clear(h) ==
    /\ Running
    /\ LET id == HandleId(h)
           size == inodes[id].size
           cleared == DiskClearSize(inodes[id])
           st == DeallocAll([data |-> data, used |-> used], cleared.freed)
       IN IF Len(cleared.freed) # TotalBlocks(size)
          THEN /\ abort' = "clear_assert"
               /\ inodes' = [inodes EXCEPT ![id] = cleared.inode]
               /\ UNCHANGED <<data, used>>
          ELSE /\ inodes' = [inodes EXCEPT ![id] = cleared.inode]
               /\ data' = st.data
               /\ used' = st.used
               /\ UNCHANGED abort
          /\ last' = Call("clear", id, <<>>, 0, 0, <<>>, Some(cleared.freed))
    /\ UNCHANGED <<slots, count>>

----------------------------------------------------------------------------
(* The directory operations of the root handle and the link-count query,   *)
(* in any order and number.                                                *)

\* a call that is not recorded, and one that is
Quiet(A) == A /\ UNCHANGED <<files, trail, kernel, sync>>
Traced(A) ==
    /\ Len(trail) < TrailLen
    /\ A
    /\ trail' = Append(trail, last')
    /\ UNCHANGED <<files, kernel, sync>>

Next ==
    \/ \E name \in Names : Quiet(FindCall(name))
    \/ Quiet(LsCall)
    \/ \E id \in FileIds : Quiet(NlinkCall(id))
    \/ \E name \in Names : Quiet(Create(name))
    \/ \E name \in Names, id \in FileIds : Quiet(HardLink(name, id))
    \/ \E name \in Names : Quiet(Unlink(name))

Spec == Init /\ [][Next]_vars

(* Every sequence of at most TrailLen mutating calls on an image, each     *)
(* call recorded with what it returned.                                    *)

InitSeq ==
    /\ EmptyImage \/ OneFileImage
    /\ data = [b \in 0..(NumDataBlocks - 1) |-> [j \in 1..BLOCK_SZ |-> 0]]
    /\ count = <<>>
    /\ abort = "none"
    /\ files = <<>>
    /\ tasks = NoTasks
    /\ LocksFree
    /\ trail = <<>>
    /\ last = NoCall

NextSeq ==
    \/ \E name \in Names : Traced(Create(name))
    \/ \E name \in Names, id \in FileIds : Traced(HardLink(name, id))
    \/ \E name \in Names : Traced(Unlink(name))

SpecSeq == InitSeq /\ [][NextSeq]_vars

(* File content of the one file of an image. In the second image the file  *)
(* already holds three bytes, in blocks that were allocated out of order    *)
(* (as they are when files grow in turn and one of them is cleared).       *)

ScatteredImage ==
    /\ inodes = (ROOT_ID :> [type |-> "dir", size |-> DIRENT_SZ, blocks |-> <<0>>])
                 @@ (1 :> [type |-> "file", size |-> BLOCK_SZ + 1, blocks |-> <<2, 1>>])
    /\ slots = <<DirEntryNew(<<98>>, 1)>>
    /\ used = {0, 1, 2}
    /\ data = [b \in 0..(NumDataBlocks - 1) |-> [j \in 1..BLOCK_SZ |->
                  IF b = 2 THEN 1 ELSE IF b = 1 /\ j = 1 THEN 2 ELSE 0]]

InitFile ==
    /\ \/ /\ OneFileImage
          /\ data = [b \in 0..(NumDataBlocks - 1) |-> [j \in 1..BLOCK_SZ |-> 0]]
       \/ ScatteredImage
    /\ count = <<>>
    /\ abort = "none"
    /\ files = <<>>
    /\ tasks = NoTasks
    /\ LocksFree
    /\ trail = <<>>
    /\ last = NoCall

NextFile ==
    \/ \E h \in Handles, offset \in 0..MaxOffset, len \in 0..MaxBufLen :
           Quiet(ReadAt(h, offset, len))
    \/ \E h \in Handles, offset \in 0..MaxOffset, buf \in Bufs :
           Quiet(WriteAt(h, offset, buf))
    \/ \E h \in Handles : Quiet(Clear(h))

SpecFile == InitFile /\ [][NextFile]_vars

----------------------------------------------------------------------------
(* Open files: OSInode::write on a file opened for reading and writing, and *)
(* write_at on the same inode beside it.                                    *)

\* OSInode::new
OSInodeNew(readable, writable, inode) ==
    [readable |-> readable, writable |-> writable, offset |-> 0, inode |-> inode]

\* UserBuffer: the slices a user buffer is made of
UserBuffers ==
    {<<>>} \cup {<<b>> : b \in Bufs \ {<<>>}}
           \cup {<<b, c>> : b, c \in {x \in Bufs : 2 * Len(x) <= MaxBufLen /\ x # <<>>}}

RECURSIVE Concat(_)
Concat(slices) ==
    IF slices = <<>> THEN <<>> ELSE Head(slices) \o Concat(Tail(slices))

\* the loop of OSInode::write; ok is FALSE where assert_eq! fails
RECURSIVE WriteSlices(_, _, _, _, _)
WriteSlices(st, inode, offset, slices, total_write_size) ==
    IF slices = <<>>
    THEN [st |-> st, offset |-> offset, total |-> total_write_size, ok |-> TRUE]
    ELSE LET slice == Head(slices)
             w == WriteAtOn(st, inode, offset, slice)
         IN IF w.n # Len(slice)
            THEN [st |-> w.st, offset |-> offset, total |-> total_write_size,
                  ok |-> FALSE]
            ELSE WriteSlices(w.st, inode, offset + w.n, Tail(slices),
                             total_write_size + w.n)

(* OSInode::write *)
OSInodeWrite(fd, buf) ==
    /\ Running
    /\ files[fd].offset + Len(Concat(buf)) <= MaxOffset + MaxBufLen
    /\ CanGrow(HandleId(files[fd].inode), files[fd].offset + Len(Concat(buf)))
    /\ LET r == WriteSlices([inodes |-> inodes, used |-> used, data |-> data],
                            files[fd].inode, files[fd].offset, buf, 0)
       IN /\ inodes' = r.st.inodes
          /\ used' = r.st.used
          /\ data' = r.st.data
          /\ files' = [files EXCEPT ![fd].offset = r.offset]
          /\ abort' = IF r.ok THEN "none" ELSE "write_assert"
          /\ last' = Call("write", HandleId(files[fd].inode), <<>>,
                          files[fd].offset, 0, Concat(buf), Some(r.total))
    /\ UNCHANGED <<slots, count, trail, kernel, sync>>

InitOpen ==
    /\ OneFileImage
    /\ data = [b \in 0..(NumDataBlocks - 1) |-> [j \in 1..BLOCK_SZ |-> 0]]
    /\ count = <<>>
    /\ abort = "none"
    /\ files = <<OSInodeNew(TRUE, TRUE, Unwrap(Find(<<98>>, Root, slots)))>>
    /\ tasks = NoTasks
    /\ LocksFree
    /\ trail = <<>>
    /\ last = NoCall

NextOpen ==
    \/ \E fd \in DOMAIN files, buf \in UserBuffers : OSInodeWrite(fd, buf)
    \/ \E h \in Handles, offset \in 0..MaxOffset, buf \in Bufs :
           Quiet(WriteAt(h, offset, buf))

SpecOpen == InitOpen /\ [][NextOpen]_vars

----------------------------------------------------------------------------
(* Two open files on the same inode: OSInode::read, read_all and write      *)
(* through either, and clear on the inode.                                  *)

\* the lengths of the slices of a UserBuffer handed to read
ReadBuffers ==
    {<<>>} \cup {<<n>> : n \in 1..MaxBufLen}
           \cup {<<n, m>> : n, m \in {x \in 1..MaxBufLen : 2 * x <= MaxBufLen + 2}}

\* the user buffers written through the two open files: the byte 2 only,
\* which the file does not hold in its first two bytes
WriteBuffers ==
    {buf \in UserBuffers : \A i \in DOMAIN Concat(buf) : Concat(buf)[i] = 2}

RECURSIVE SumLens(_)
SumLens(lens) == IF lens = <<>> THEN 0 ELSE Head(lens) + SumLens(Tail(lens))

\* inner.offset of one open file set to a cursor that belongs to every open file
SetCursor_AllOpens(fs, fd, offset) ==
    [g \in DOMAIN fs |-> [fs[g] EXCEPT !.offset = offset]]

\* inner.offset += size, on the open file fd
SetCursor(fs, fd, offset) == [fs EXCEPT ![fd].offset = offset]

\* the loop of read that moves the cursor by the length of the slice
RECURSIVE ReadSlices_BySliceLen(_, _, _, _, _, _)
ReadSlices_BySliceLen(di, d, offset, lens, total_read_size, bytes) ==
    IF lens = <<>>
    THEN [offset |-> offset, total |-> total_read_size, bytes |-> bytes]
    ELSE LET r == DiskReadAt(di, d, offset, Head(lens))
         IN IF Len(r) = 0
            THEN [offset |-> offset, total |-> total_read_size, bytes |-> bytes]
            ELSE ReadSlices_BySliceLen(di, d, offset + Head(lens), Tail(lens),
                                       total_read_size + Len(r), bytes \o r)

\* the loop of OSInode::read: it ends at the first slice that gets no byte
RECURSIVE ReadSlices(_, _, _, _, _, _)
ReadSlices(di, d, offset, lens, total_read_size, bytes) ==
    IF lens = <<>>
    THEN [offset |-> offset, total |-> total_read_size, bytes |-> bytes]
    ELSE LET r == DiskReadAt(di, d, offset, Head(lens))
         IN IF Len(r) = 0
            THEN [offset |-> offset, total |-> total_read_size, bytes |-> bytes]
            ELSE ReadSlices(di, d, offset + Len(r), Tail(lens),
                            total_read_size + Len(r), bytes \o r)

(* OSInode::read; the record keeps the cursor before the call, the total    *)
(* length of the buffer, the bytes put in it and the number returned        *)
OSInodeRead(fd, lens) ==
    /\ Running
    /\ LET id == HandleId(files[fd].inode)
           r == ReadSlices(inodes[id], data, files[fd].offset, lens, 0, <<>>)
       IN /\ files' = SetCursor(files, fd, r.offset)
          /\ last' = Call("read", id, <<>>, files[fd].offset, SumLens(lens),
                          r.bytes, Some(r.total))
    /\ UNCHANGED <<inodes, slots, data, used, count, abort, trail, kernel, sync>>

\* the loop of OSInode::read_all, its buffer one block long
RECURSIVE ReadAll(_, _, _, _)
ReadAll(di, d, offset, v) ==
    LET r == DiskReadAt(di, d, offset, BLOCK_SZ)
    IN IF Len(r) = 0 THEN [offset |-> offset, v |-> v]
       ELSE ReadAll(di, d, offset + Len(r), v \o r)

(* OSInode::read_all *)
OSInodeReadAll(fd) ==
    /\ Running
    /\ LET id == HandleId(files[fd].inode)
           r == ReadAll(inodes[id], data, files[fd].offset, <<>>)
       IN /\ files' = SetCursor(files, fd, r.offset)
          /\ last' = Call("read_all", id, <<>>, files[fd].offset, 0, r.v,
                          Some(Len(r.v)))
    /\ UNCHANGED <<inodes, slots, data, used, count, abort, trail, kernel, sync>>

InitCursor ==
    /\ ScatteredImage
    /\ count = <<>>
    /\ abort = "none"
    /\ files = <<OSInodeNew(TRUE, TRUE, Unwrap(Find(<<98>>, Root, slots))),
                 OSInodeNew(TRUE, TRUE, Unwrap(Find(<<98>>, Root, slots)))>>
    /\ tasks = NoTasks
    /\ LocksFree
    /\ trail = <<>>
    /\ last = NoCall

NextCursor ==
    \/ \E fd \in DOMAIN files, lens \in ReadBuffers : OSInodeRead(fd, lens)
    \/ \E fd \in DOMAIN files : OSInodeReadAll(fd)
    \/ \E fd \in DOMAIN files, buf \in WriteBuffers : OSInodeWrite(fd, buf)
    \/ \E h \in Handles : Quiet(Clear(h))

SpecCursor == InitCursor /\ [][NextCursor]_vars

----------------------------------------------------------------------------
(* System calls (os/src/syscall/fs.rs) and open_file (os/src/fs/inode.rs).  *)
(* A call is a sequence of Inode method calls, each atomic under the         *)
(* filesystem lock; the task's record holds its position and its locals.     *)

\* OpenFlags, as the set of the bits that are set (RDONLY is no bit)
OpenFlagSets ==
    {{}, {"RDWR"}, {"CREATE"}, {"TRUNC"}, {"WRONLY", "CREATE"}, {"RDWR", "TRUNC"},
     {"WRONLY"}, {"CREATE", "TRUNC"}}

\* OpenFlags::read_write
ReadWrite(flags) ==
    IF flags = {} THEN <<TRUE, FALSE>>
    ELSE IF "WRONLY" \in flags THEN <<FALSE, TRUE>>
    ELSE <<TRUE, TRUE>>

\* a step of a call that calls no Inode method
NoInodeCall == UNCHANGED <<inodes, slots, data, used, count, last>>

\* the task moves on, in a step that opens no file
TaskStep(t, next) ==
    /\ tasks' = [tasks EXCEPT ![t] = next]
    /\ UNCHANGED <<files, trail, sync>>

\* sys_open returns: the OSInode of the inode handle, if there is one, is put
\* in the table and its position returned; -1 otherwise
OpenReturn(t, inode) ==
    IF abort' # "none"
    THEN UNCHANGED <<files, tasks>>
    ELSE IF inode = None
    THEN /\ files' = files
         /\ tasks' = [tasks EXCEPT ![t] = TaskAt("idle", -1)]
    ELSE /\ files' = Append(files, OSInodeNew(ReadWrite(tasks[t].flags)[1],
                                              ReadWrite(tasks[t].flags)[2],
                                              Unwrap(inode)))
         /\ tasks' = [tasks EXCEPT ![t] = TaskAt("idle", Len(files))]

(* sys_open, open_file: ROOT_INODE.find(name) *)
SysOpenFind(t, name, flags) ==
    /\ Running
    /\ tasks[t].pc = "idle"
    /\ Len(files) < MaxOpenFiles
    /\ ("CREATE" \in flags /\ FindInodeId(name, Root, slots) = None)
           => (CanAppend /\ Cardinality(DOMAIN inodes) < MaxInodes)
    /\ FindCall(name)
    /\ TaskStep(t, [TaskAt("open_do", 0) EXCEPT
                        !.name = name, !.flags = flags, !.inode = last'.ret])

\* open_file that does not clear the file it finds when CREATE is set
SysOpenDo_NoClear(t) ==
    /\ Running
    /\ tasks[t].pc = "open_do"
    /\ IF "CREATE" \in tasks[t].flags /\ tasks[t].inode = None
       THEN /\ Create(tasks[t].name)
            /\ OpenReturn(t, last'.ret)
       ELSE IF tasks[t].inode # None /\ "TRUNC" \in tasks[t].flags
            THEN /\ Clear(Unwrap(tasks[t].inode))
                 /\ OpenReturn(t, tasks[t].inode)
            ELSE /\ NoInodeCall
                 /\ UNCHANGED abort
                 /\ OpenReturn(t, tasks[t].inode)
    /\ UNCHANGED <<trail, sync>>

\* open_file that takes TRUNC for set whenever the file is found
SysOpenDo_AlwaysTrunc(t) ==
    /\ Running
    /\ tasks[t].pc = "open_do"
    /\ IF tasks[t].inode # None
       THEN /\ Clear(Unwrap(tasks[t].inode))
            /\ OpenReturn(t, tasks[t].inode)
       ELSE IF "CREATE" \in tasks[t].flags
            THEN /\ Create(tasks[t].name)
                 /\ OpenReturn(t, last'.ret)
            ELSE /\ NoInodeCall
                 /\ UNCHANGED abort
                 /\ OpenReturn(t, tasks[t].inode)
    /\ UNCHANGED <<trail, sync>>

(* sys_open, open_file: clear or create as the flags say, OSInode::new *)
SysOpenDo(t) ==
    /\ Running
    /\ tasks[t].pc = "open_do"
    /\ IF "CREATE" \in tasks[t].flags
       THEN IF tasks[t].inode # None
            THEN /\ Clear(Unwrap(tasks[t].inode))
                 /\ OpenReturn(t, tasks[t].inode)
            ELSE /\ Create(tasks[t].name)
                 /\ OpenReturn(t, last'.ret)
       ELSE IF tasks[t].inode # None /\ "TRUNC" \in tasks[t].flags
            THEN /\ Clear(Unwrap(tasks[t].inode))
                 /\ OpenReturn(t, tasks[t].inode)
            ELSE /\ NoInodeCall
                 /\ UNCHANGED abort
                 /\ OpenReturn(t, tasks[t].inode)
    /\ UNCHANGED <<trail, sync>>

(* sys_linkat: find_inode(&old_name) *)
SysLinkatFindOld(t, old_name, new_name) ==
    /\ Running
    /\ tasks[t].pc = "idle"
    /\ CanAppend
    /\ FindCall(old_name)
    /\ TaskStep(t, [TaskAt("linkat_find_new", 0) EXCEPT
                        !.name = old_name, !.new_name = new_name,
                        !.inode = last'.ret])

(* sys_linkat: find_inode(&new_name) *)
SysLinkatFindNew(t) ==
    /\ Running
    /\ tasks[t].pc = "linkat_find_new"
    /\ FindCall(tasks[t].new_name)
    /\ TaskStep(t, [tasks[t] EXCEPT !.pc = "linkat_do", !.new_inode = last'.ret])

(* sys_linkat: the two checks, then link(&new_name, old_inode.inode_id()) *)
SysLinkatDo(t) ==
    /\ Running
    /\ tasks[t].pc = "linkat_do"
    /\ IF tasks[t].inode = None \/ tasks[t].new_inode # None
       THEN /\ NoInodeCall
            /\ UNCHANGED abort
            /\ TaskStep(t, TaskAt("idle", -1))
       ELSE /\ HardLink(tasks[t].new_name, HandleId(Unwrap(tasks[t].inode)))
            /\ TaskStep(t, TaskAt("idle", 0))

(* sys_unlinkat: find_inode(&name) *)
SysUnlinkatFind(t, name) ==
    /\ Running
    /\ tasks[t].pc = "idle"
    /\ FindCall(name)
    /\ TaskStep(t, [TaskAt("unlinkat_unwrap", 0) EXCEPT
                        !.name = name, !.inode = last'.ret])

(* sys_unlinkat: inode.clone().unwrap().inode_id(), which comes before the  *)
(* test of inode.is_none(): on None the kernel panics                        *)
SysUnlinkatUnwrap(t) ==
    /\ Running
    /\ tasks[t].pc = "unlinkat_unwrap"
    /\ NoInodeCall
    /\ IF tasks[t].inode = None
       THEN /\ abort' = "unwrap_none"
            /\ TaskStep(t, tasks[t])
       ELSE /\ UNCHANGED abort
            /\ TaskStep(t, [tasks[t] EXCEPT
                                !.pc = "unlinkat_unlink",
                                !.id = HandleId(Unwrap(tasks[t].inode))])

(* sys_unlinkat: unlink(&name) *)
SysUnlinkatUnlink(t) ==
    /\ Running
    /\ tasks[t].pc = "unlinkat_unlink"
    /\ Unlink(tasks[t].name)
    /\ TaskStep(t, [tasks[t] EXCEPT !.pc = "unlinkat_nlink"])

(* sys_unlinkat: nlink(inode_id) *)
SysUnlinkatNlink(t) ==
    /\ Running
    /\ tasks[t].pc = "unlinkat_nlink"
    /\ NlinkCall(tasks[t].id)
    /\ TaskStep(t, [tasks[t] EXCEPT !.pc = "unlinkat_clear",
                                    !.cnt = Unwrap(last'.ret)])

(* sys_unlinkat: inode.unwrap().clear() when the count is 0 *)
SysUnlinkatClear(t) ==
    /\ Running
    /\ tasks[t].pc = "unlinkat_clear"
    /\ IF tasks[t].cnt = 0
       THEN Clear(Unwrap(tasks[t].inode))
       ELSE NoInodeCall /\ UNCHANGED abort
    /\ TaskStep(t, TaskAt("idle", 0))

(* One task makes system calls, one after the other, on an empty directory *)
(* or on the image whose file holds three bytes.                            *)

InitSys ==
    /\ \/ /\ EmptyImage
          /\ data = [b \in 0..(NumDataBlocks - 1) |-> [j \in 1..BLOCK_SZ |-> 0]]
       \/ ScatteredImage
    /\ count = <<>>
    /\ abort = "none"
    /\ files = <<>>
    /\ tasks = [NoTasks EXCEPT ![1] = TaskAt("idle", 0)]
    /\ LocksFree
    /\ trail = <<>>
    /\ last = NoCall

NextSys ==
    \/ \E t \in TaskIds, name \in Names, flags \in OpenFlagSets :
           SysOpenFind(t, name, flags)
    \/ \E t \in TaskIds : SysOpenDo(t)
    \/ \E t \in TaskIds, old_name \in Names, new_name \in Names :
           SysLinkatFindOld(t, old_name, new_name)
    \/ \E t \in TaskIds : SysLinkatFindNew(t)
    \/ \E t \in TaskIds : SysLinkatDo(t)
    \/ \E t \in TaskIds, name \in Names : SysUnlinkatFind(t, name)
    \/ \E t \in TaskIds : SysUnlinkatUnwrap(t)
    \/ \E t \in TaskIds : SysUnlinkatUnlink(t)
    \/ \E t \in TaskIds : SysUnlinkatNlink(t)
    \/ \E t \in TaskIds : SysUnlinkatClear(t)

SpecSys == InitSys /\ [][NextSys]_vars

----------------------------------------------------------------------------
(* Threads in Inode methods: the filesystem lock, the lock of the block    *)
(* cache entry that holds the handle's disk inode, and the flush of the    *)
(* block cache. A method is the steps: arrive at fs.lock(), acquire it,    *)
(* lock the cache entry, run the closure, block_cache_sync_all(), return.  *)
(* is_dir and is_file go to the cache entry directly.                      *)

\* what the closures read and write
Disk == <<inodes, slots, data, used, count>>

\* the methods that end with block_cache_sync_all()
Mutating == {"create", "hard_link", "unlink", "write_at", "clear"}
\* the methods that take no filesystem lock
Unlocked == {"is_dir", "is_file"}

\* the calls the threads make: thread 1 adds and removes names and writes
\* the first or the second byte of the image's file, thread 2 looks names
\* up, reads and clears that file; each asks for an inode's type
MethodCalls(t) ==
    IF t = 1
    THEN {Call("create", ROOT_ID, <<97>>, 0, 0, <<>>, None),
          Call("hard_link", ROOT_ID, <<97>>, 1, 0, <<>>, None),
          Call("unlink", ROOT_ID, <<98>>, 0, 0, <<>>, None),
          Call("write_at", 1, <<>>, 0, 0, <<2>>, None),
          Call("write_at", 1, <<>>, 1, 0, <<2>>, None),
          Call("is_file", ROOT_ID, <<>>, 0, 0, <<>>, None)}
    ELSE {Call("find", ROOT_ID, <<98>>, 0, 0, <<>>, None),
          Call("ls", ROOT_ID, <<>>, 0, 0, <<>>, None),
          Call("read_at", 1, <<>>, 0, 1, <<>>, None),
          Call("clear", 1, <<>>, 0, 0, <<>>, None),
          Call("is_dir", 1, <<>>, 0, 0, <<>>, None)}

\* the directory, the inode bitmap and the allocator have room for the call
HasRoom(c) ==
    CASE c.op = "create" ->
            \/ FindInodeId(c.name, Root, slots) # None
            \/ CanAppend /\ Cardinality(DOMAIN inodes) < MaxInodes
      [] c.op = "hard_link" -> CanAppend
      [] c.op = "write_at" -> CanGrow(c.id, c.arg + Len(c.buf))
      [] OTHER -> TRUE

\* a thread enters a method: the next thing it does is self.fs.lock(), or
\* in is_dir / is_file read_disk_inode
Enter(t, c) ==
    /\ Running
    /\ thr[t].pc = "idle"
    /\ thr' = [thr EXCEPT ![t] = [pc |-> IF c.op \in Unlocked THEN "disk_inode"
                                         ELSE "fs_lock",
                                  call |-> c, seen |-> <<>>]]
    /\ UNCHANGED <<inodes, slots, data, used, count, abort, last>>
    /\ UNCHANGED <<fs_lock, blk_lock, dirty>>

\* a lock() that does not wait for the lock to be free
FsLock_NoWait(t) ==
    /\ Running
    /\ thr[t].pc = "fs_lock"
    /\ fs_lock' = t
    /\ thr' = [thr EXCEPT ![t].pc = "disk_inode", ![t].seen = Disk]
    /\ UNCHANGED <<inodes, slots, data, used, count, abort, last>>
    /\ UNCHANGED <<blk_lock, dirty>>

\* self.fs.lock(): the thread spins until the lock is free and takes it;
\* seen is the disk state at that moment
FsLock(t) ==
    /\ Running
    /\ thr[t].pc = "fs_lock"
    /\ fs_lock = 0
    /\ HasRoom(thr[t].call)
    /\ fs_lock' = t
    /\ thr' = [thr EXCEPT ![t].pc = "disk_inode", ![t].seen = Disk]
    /\ UNCHANGED <<inodes, slots, data, used, count, abort, last>>
    /\ UNCHANGED <<blk_lock, dirty>>

\* read_disk_inode / modify_disk_inode: get_block_cache(self.block_id, ..).lock()
BlkLock(t) ==
    /\ Running
    /\ thr[t].pc = "disk_inode"
    /\ LET b == NewHandle(thr[t].call.id).block_id
       IN /\ blk_lock[b] = 0
          /\ blk_lock' = [blk_lock EXCEPT ![b] = t]
    /\ thr' = [thr EXCEPT ![t].pc = "closure"]
    /\ UNCHANGED <<inodes, slots, data, used, count, abort, last>>
    /\ UNCHANGED <<fs_lock, dirty>>

(* Inode::is_dir, Inode::is_file *)
TypeCall(op, id) ==
    /\ Running
    /\ last' = Call(op, id, <<>>, 0, 0, <<>>,
                    Some(inodes[id].type = (IF op = "is_dir" THEN "dir" ELSE "file")))
    /\ UNCHANGED <<inodes, slots, data, used, count, abort>>

\* the method's work on the disk inode and what follows it
MethodBody(c) ==
    CASE c.op = "find" -> FindCall(c.name)
      [] c.op = "ls" -> LsCall
      [] c.op = "create" -> Create(c.name)
      [] c.op = "hard_link" -> HardLink(c.name, c.arg)
      [] c.op = "unlink" -> Unlink(c.name)
      [] c.op = "read_at" -> ReadAt(NewHandle(c.id), c.arg, c.len)
      [] c.op = "write_at" -> WriteAt(NewHandle(c.id), c.arg, c.buf)
      [] c.op = "clear" -> Clear(NewHandle(c.id))
      [] c.op \in Unlocked -> TypeCall(c.op, c.id)

\* write_at returns without the flush
AfterBody_WriteNoSync(op, ret) ==
    IF op \in Unlocked THEN "idle"
    ELSE IF op \in Mutating \ {"write_at"} /\ ~(op = "create" /\ ret = None)
         THEN "sync"
         ELSE "return"

\* where the method goes after the closure: to block_cache_sync_all() in a
\* mutating method, except create that found the name; is_dir and is_file
\* are over
AfterBody(op, ret) ==
    IF op \in Unlocked THEN "idle"
    ELSE IF op \in Mutating /\ ~(op = "create" /\ ret = None)
         THEN "sync"
         ELSE "return"

\* the parts of the block cache a closure leaves modified: the block of the
\* disk inode whenever modify_disk_inode ran, and what else has changed
Touched(op, ret) ==
    (IF AfterBody(op, ret) = "sync" \/ inodes' # inodes
     THEN {"inode_area"} ELSE {})
    \cup (IF slots' # slots \/ data' # data THEN {"data_area"} ELSE {})
    \cup (IF used' # used THEN {"bitmap"} ELSE {})

\* the closure runs under the cache entry's lock, which is released after it
Closure(t) ==
    /\ thr[t].pc = "closure"
    /\ LET c == thr[t].call
           b == NewHandle(c.id).block_id
       IN /\ MethodBody(c)
          /\ blk_lock' = [blk_lock EXCEPT ![b] = 0]
          /\ dirty' = dirty \cup Touched(c.op, last'.ret)
          /\ thr' = [thr EXCEPT ![t] =
                        IF AfterBody(c.op, last'.ret) = "idle" THEN ThreadIdle
                        ELSE [@ EXCEPT !.pc = AfterBody(c.op, last'.ret),
                                       !.seen = <<>>]]
    /\ UNCHANGED fs_lock

\* block_cache_sync_all(): every cached block is written to the device
Sync(t) ==
    /\ Running
    /\ thr[t].pc = "sync"
    /\ dirty' = {}
    /\ thr' = [thr EXCEPT ![t].pc = "return"]
    /\ UNCHANGED <<inodes, slots, data, used, count, abort, last>>
    /\ UNCHANGED <<fs_lock, blk_lock>>

\* the method returns: the MutexGuard of the filesystem lock is dropped
Return(t) ==
    /\ Running
    /\ thr[t].pc = "return"
    /\ fs_lock' = 0
    /\ thr' = [thr EXCEPT ![t] = ThreadIdle]
    /\ UNCHANGED <<inodes, slots, data, used, count, abort, last>>
    /\ UNCHANGED <<blk_lock, dirty>>

InitLock ==
    /\ OneFileImage
    /\ data = [b \in 0..(NumDataBlocks - 1) |-> [j \in 1..BLOCK_SZ |-> 0]]
    /\ count = <<>>
    /\ abort = "none"
    /\ files = <<>>
    /\ tasks = NoTasks
    /\ LocksFree
    /\ trail = <<>>
    /\ last = NoCall

NextLock ==
    \/ \E t \in ThreadIds : \E c \in MethodCalls(t) :
           Enter(t, c) /\ UNCHANGED <<files, trail, kernel, tbl_lock>>
    \/ \E t \in ThreadIds : FsLock(t) /\ UNCHANGED <<files, trail, kernel, tbl_lock>>
    \/ \E t \in ThreadIds : BlkLock(t) /\ UNCHANGED <<files, trail, kernel, tbl_lock>>
    \/ \E t \in ThreadIds : Closure(t) /\ UNCHANGED <<files, trail, kernel, tbl_lock>>
    \/ \E t \in ThreadIds : Sync(t) /\ UNCHANGED <<files, trail, kernel, tbl_lock>>
    \/ \E t \in ThreadIds : Return(t) /\ UNCHANGED <<files, trail, kernel, tbl_lock>>

SpecLock == InitLock /\ [][NextLock]_vars

----------------------------------------------------------------------------
(* Threads in the wrappers link, unlink and nlink and in Inode methods.    *)
(* A wrapper takes HARD_LINK_COUNT.exclusive_access() first and holds it   *)
(* over the Inode method it calls; nlink holds it for its lookup only.     *)

\* what the threads call: thread 1 adds names and writes, thread 2 removes
\* a name, asks for a link count, looks up, reads, clears
DirectCalls(t) ==
    IF t = 1
    THEN {Call("create", ROOT_ID, <<97>>, 0, 0, <<>>, None),
          Call("write_at", 1, <<>>, 0, 0, <<2>>, None),
          Call("ls", ROOT_ID, <<>>, 0, 0, <<>>, None)}
    ELSE {Call("find", ROOT_ID, <<98>>, 0, 0, <<>>, None),
          Call("read_at", 1, <<>>, 0, 1, <<>>, None),
          Call("clear", 1, <<>>, 0, 0, <<>>, None),
          Call("is_dir", 1, <<>>, 0, 0, <<>>, None)}

WrapperCalls(t) ==
    IF t = 1
    THEN {Call("hard_link", ROOT_ID, <<97>>, 1, 0, <<>>, None)}
    ELSE {Call("unlink", ROOT_ID, <<98>>, 0, 0, <<>>, None),
          Call("nlink", 0, <<>>, 1, 0, <<>>, None)}

\* a thread calls an Inode method
Invoke(t, c) ==
    /\ HasRoom(c)
    /\ Enter(t, c)
    /\ UNCHANGED tbl_lock

\* a thread calls link, unlink or nlink: the next thing it does is
\* HARD_LINK_COUNT.exclusive_access()
InvokeWrapper(t, c) ==
    /\ Running
    /\ thr[t].pc = "idle"
    /\ HasRoom(c)
    /\ thr' = [thr EXCEPT ![t] = [pc |-> "table", call |-> c, seen |-> <<>>]]
    /\ UNCHANGED <<inodes, slots, data, used, count, abort, last>>
    /\ UNCHANGED <<fs_lock, tbl_lock, blk_lock, dirty>>

\* exclusive_access() in link and unlink: the table is taken and the Inode
\* method entered with the table held
ExclusiveAccess(t) ==
    /\ Running
    /\ thr[t].pc = "table"
    /\ thr[t].call.op # "nlink"
    /\ tbl_lock = 0
    /\ tbl_lock' = t
    /\ thr' = [thr EXCEPT ![t].pc = "fs_lock"]
    /\ UNCHANGED <<inodes, slots, data, used, count, abort, last>>
    /\ UNCHANGED <<fs_lock, blk_lock, dirty>>

(* nlink: exclusive_access().get(&inode_id).copied().unwrap_or(1) *)
NlinkStep(t) ==
    /\ thr[t].pc = "table"
    /\ thr[t].call.op = "nlink"
    /\ tbl_lock = 0
    /\ NlinkCall(thr[t].call.arg)
    /\ thr' = [thr EXCEPT ![t] = ThreadIdle]
    /\ UNCHANGED <<fs_lock, tbl_lock, blk_lock, dirty>>

\* the return of link and unlink that keeps the table
WrapperReturn_KeepsTable(t) ==
    /\ Return(t)
    /\ UNCHANGED tbl_lock

\* the Inode method returns; in link and unlink the table is given back
\* with it (the temporary of exclusive_access() ends with the statement)
WrapperReturn(t) ==
    /\ Return(t)
    /\ tbl_lock' = IF tbl_lock = t THEN 0 ELSE tbl_lock

InitLive == InitLock

NextLive ==
    \/ \E t \in ThreadIds : \E c \in DirectCalls(t) :
           Invoke(t, c) /\ UNCHANGED <<files, trail, kernel>>
    \/ \E t \in ThreadIds : \E c \in WrapperCalls(t) :
           InvokeWrapper(t, c) /\ UNCHANGED <<files, trail, kernel>>
    \/ \E t \in ThreadIds : ExclusiveAccess(t) /\ UNCHANGED <<files, trail, kernel>>
    \/ \E t \in ThreadIds : NlinkStep(t) /\ UNCHANGED <<files, trail, kernel>>
    \/ \E t \in ThreadIds : FsLock(t) /\ UNCHANGED <<files, trail, kernel, tbl_lock>>
    \/ \E t \in ThreadIds : BlkLock(t) /\ UNCHANGED <<files, trail, kernel, tbl_lock>>
    \/ \E t \in ThreadIds : Closure(t) /\ UNCHANGED <<files, trail, kernel, tbl_lock>>
    \/ \E t \in ThreadIds : Sync(t) /\ UNCHANGED <<files, trail, kernel, tbl_lock>>
    \/ \E t \in ThreadIds : WrapperReturn(t) /\ UNCHANGED <<files, trail, kernel>>

\* the steps of a thread inside a call
ThreadStep(t) ==
    \/ ExclusiveAccess(t) /\ UNCHANGED <<files, trail, kernel>>
    \/ NlinkStep(t) /\ UNCHANGED <<files, trail, kernel>>
    \/ FsLock(t) /\ UNCHANGED <<files, trail, kernel, tbl_lock>>
    \/ BlkLock(t) /\ UNCHANGED <<files, trail, kernel, tbl_lock>>
    \/ Closure(t) /\ UNCHANGED <<files, trail, kernel, tbl_lock>>
    \/ Sync(t) /\ UNCHANGED <<files, trail, kernel, tbl_lock>>
    \/ WrapperReturn(t) /\ UNCHANGED <<files, trail, kernel>>

\* a thread in a call takes its next step; one that spins on a lock that is
\* free again and again gets it
Fairness == \A t \in ThreadIds : SF_vars(ThreadStep(t))

SpecLive == InitLive /\ [][NextLive]_vars /\ Fairness

----------------------------------------------------------------------------
(* Properties *)

SlotCount == Root.size \div DIRENT_SZ
NonEmptyNames == Names \ {<<>>}

\* the call c is a create of `name` that returned a handle
CreatedBy(c, name) == c.op = "create" /\ c.name = name /\ c.ret # None
\* the inode id of the handle a call returned
RetId(c) == HandleId(Unwrap(c.ret))
\* find(name) resolves to inode id: now, and after the step
ResolvesTo(name, id) == Find(name, Root, slots) = Some(NewHandle(id))
ResolvesToNext(name, id) == Find(name, Root', slots') = Some(NewHandle(id))

\* C1: link accounting over the sequence create(a); hard_link(b, X); unlink(a)
\* for two different non-empty names, b not in the directory: when create(a)
\* returns inode X, nlink(X) = 1; after the hard_link, find(b) resolves to X
\* and nlink(X) = 2; after the unlink, find(a) is empty, nlink(X) = 1 and
\* find(b) still resolves to X.
C1_LinkAccounting ==
    [][\A a \in NonEmptyNames : \A b \in NonEmptyNames \ {a} :
        /\ (Create(a) /\ last'.ret # None) => NlinkOf(count', RetId(last')) = 1
        /\ (/\ CreatedBy(last, a)
            /\ Find(b, Root, slots) = None
            /\ HardLink(b, RetId(last)))
           => /\ ResolvesToNext(b, RetId(last))
              /\ NlinkOf(count', RetId(last)) = 2
        /\ (/\ Len(trail) >= 2
            /\ CreatedBy(trail[Len(trail) - 1], a)
            /\ last = Call("hard_link", ROOT_ID, b, RetId(trail[Len(trail) - 1]),
                           0, <<>>, None)
            /\ ResolvesTo(b, last.arg)
            /\ Unlink(a))
           => /\ abort' = "none"
              /\ Find(a, Root', slots') = None
              /\ NlinkOf(count', last.arg) = 1
              /\ ResolvesToNext(b, last.arg)
      ]_vars

C1_Witness ==
    /\ Len(trail) = 3
    /\ CreatedBy(trail[1], <<97>>)
    /\ trail[2] = Call("hard_link", ROOT_ID, <<98>>, RetId(trail[1]), 0, <<>>, None)
    /\ trail[3].op = "unlink" /\ trail[3].name = <<97>> /\ trail[3].ret # None
    /\ Find(<<97>>, Root, slots) = None
    /\ ResolvesTo(<<98>>, RetId(trail[1]))
    /\ Nlink(RetId(trail[1])) = 1


\* number of slots that carry `name`
MatchCount(name) ==
    Cardinality({i \in 1..SlotCount : DirEntryName(SlotAt(slots, i)) = name})

\* C2, as stated: in every directory that create, hard_link and unlink can
\* build, right after unlink(name) returns, find(name) is empty and the number
\* of slots is what it was.
C2_Original ==
    [][\A name \in Names :
        (Unlink(name) /\ abort' = "none")
        => /\ Find(name, Root', slots') = None
           /\ Root'.size \div DIRENT_SZ = SlotCount
      ]_vars

\* C2, amended: right after unlink(name) returns the number of slots is what
\* it was, and find(name) is empty when no more than one slot carried `name`.
C2_TombstoneNonResolution ==
    [][\A name \in Names :
        (Unlink(name) /\ abort' = "none")
        => /\ Root'.size \div DIRENT_SZ = SlotCount
           /\ Len(slots') = Len(slots)
           /\ MatchCount(name) <= 1 => Find(name, Root', slots') = None
      ]_vars

C2_Witness ==
    /\ last.op = "unlink" /\ last.ret # None /\ last.name # <<>>
    /\ abort = "none"
    /\ Find(last.name, Root, slots) = None
    /\ SlotCount = 2
    /\ SlotAt(slots, Unwrap(last.ret)) = Tombstone

\* the first slot, in slot order, whose name is `name` and whose inode id is
\* not the sentinel
FirstLive(name) ==
    LET hits == {i \in 1..SlotCount :
                    /\ DirEntryName(SlotAt(slots, i)) = name
                    /\ DirEntryInodeId(SlotAt(slots, i)) # U32_MAX}
    IN IF hits = {} THEN None
       ELSE Some(NewHandle(DirEntryInodeId(
                SlotAt(slots, CHOOSE i \in hits : \A j \in hits : i <= j))))

\* C3: find(name) returns a handle to the inode of the first slot whose name
\* is `name` and whose inode id is not the sentinel, and nothing only when
\* there is no such slot; for every name, the empty one included.
C3_FindFirstLive ==
    last.op = "find" => last.ret = FirstLive(last.name)

\* C4: create(name) twice in a row: the second call returns nothing and
\* changes nothing, and find(name) still resolves to the inode the first
\* call made.
C4_CreationGuard ==
    [][\A name \in Names :
        (CreatedBy(last, name) /\ Create(name))
        => /\ last'.ret = None
           /\ UNCHANGED <<inodes, slots, data, used, count, abort>>
           /\ Find(name, Root', slots') = last.ret
      ]_vars

C4_Witness ==
    /\ Len(trail) >= 2
    /\ CreatedBy(trail[Len(trail) - 1], last.name)
    /\ last.op = "create" /\ last.ret = None
    /\ Find(last.name, Root, slots) = trail[Len(trail) - 1].ret

C6_HardLink ==
    [][\A name \in Names : \A id \in FileIds :
        HardLink(name, id)
        => /\ Len(slots') = Len(slots) + 1
           /\ SubSeq(slots', 1, Len(slots)) = slots
           /\ Root'.size = Root.size + DIRENT_SZ
           /\ DirEntryName(slots'[Len(slots')]) = name
           /\ DirEntryInodeId(slots'[Len(slots')]) = id
           /\ DOMAIN inodes' = DOMAIN inodes
           /\ \A f \in FileIds : inodes'[f] = inodes[f]
           /\ DOMAIN count' = DOMAIN count \cup {id}
           /\ count'[id] = IF id \in DOMAIN count THEN count[id] + 1 ELSE 2
           /\ \A k \in DOMAIN count \ {id} : count'[k] = count[k]
           /\ NlinkOf(count', id) = count'[id]
           /\ \A k \in FileIds \ DOMAIN count' : NlinkOf(count', k) = 1
      ]_vars

C6_Witness ==
    /\ last.op = "hard_link"
    /\ count[last.arg] = 1
    /\ SlotCount = 2
    /\ DirEntryInodeId(slots[2]) = last.arg
    /\ DirEntryName(slots[2]) = last.name

\* C7: ls() returns one name per slot, in slot order, tombstones included:
\* after unlink(name) removed an entry, ls() is as long as before and holds
\* the empty name at the position of the entry.
C7_Ls ==
    [][/\ LsCall
          => /\ Len(Unwrap(last'.ret)) = Root.size \div DIRENT_SZ
             /\ \A i \in 1..Len(slots) :
                    Unwrap(last'.ret)[i] = DirEntryName(slots[i])
       /\ \A name \in Names :
            (Unlink(name) /\ last'.ret # None)
            => /\ Len(Ls(Root', slots')) = Len(Ls(Root, slots))
               /\ Ls(Root', slots')[Unwrap(last'.ret)] = <<>>
       /\ (last.op = "unlink" /\ last.ret # None /\ LsCall)
            => /\ Len(Unwrap(last'.ret)) = SlotCount
               /\ Unwrap(last'.ret)[Unwrap(last.ret)] = <<>>
      ]_vars

C7_Witness ==
    /\ last.op = "ls"
    /\ Len(Unwrap(last.ret)) = 2
    /\ slots[1] = Tombstone
    /\ DirEntryInodeId(slots[2]) # U32_MAX
    /\ Unwrap(last.ret)[1] = <<>>
    /\ Unwrap(last.ret)[2] # <<>>


\* C8: read after write: after write_at(offset, buf) on a file, at an offset
\* within or beyond its size, read_at(offset, a buffer as long as buf) through
\* any handle to the same inode transfers Len(buf) bytes, and they are buf;
\* also when the range lies in more than one block.
C8_ReadAfterWrite ==
    [][\A h \in Handles : \A len \in 0..MaxBufLen :
        (/\ last.op = "write_at"
         /\ last.id = HandleId(h)
         /\ len = Len(last.buf)
         /\ ReadAt(h, last.arg, len))
        => last'.ret = Some(last.buf)
      ]_vars

C8_Witness ==
    /\ last.op = "read_at"
    /\ last.arg = 1
    /\ last.ret = Some(<<2, 1>>)
    /\ (last.arg \div BLOCK_SZ) # ((last.arg + 1) \div BLOCK_SZ)
    /\ inodes[last.id].size = 3

\* C9: write_at(offset, buf) returns Len(buf) and leaves the size of the file
\* at max(old size, offset + Len(buf)), as long as the allocator has the
\* blocks; so the assertion of OSInode::write on every slice holds: no write
\* aborts, and it reports and advances the cursor by the length of the buffer.
\* (The step's record names the offset and the bytes of the call.)
C9_Growth ==
    [][/\ \A h \in Handles :
            (last'.op = "write_at" /\ WriteAt(h, last'.arg, last'.buf))
            => /\ last'.ret = Some(Len(last'.buf))
               /\ inodes'[HandleId(h)].size =
                      Max(inodes[HandleId(h)].size, last'.arg + Len(last'.buf))
               /\ abort' = "none"
       /\ \A fd \in DOMAIN files : \A buf \in UserBuffers :
            (last'.op = "write" /\ Concat(buf) = last'.buf /\ OSInodeWrite(fd, buf))
            => /\ abort' = "none"
               /\ last'.ret = Some(Len(Concat(buf)))
               /\ files'[fd].offset = files[fd].offset + Len(Concat(buf))
               /\ inodes'[HandleId(files[fd].inode)].size =
                      Max(inodes[HandleId(files[fd].inode)].size,
                          files[fd].offset + Len(Concat(buf)))
      ]_vars

\* a write through the open file at cursor 0, into a file that a write_at
\* beyond its end had grown to three bytes: the size stays the larger one
C9_Witness ==
    /\ last.op = "write"
    /\ last.arg = 0
    /\ last.buf = <<2, 2>>
    /\ last.ret = Some(2)
    /\ files[1].offset = 2
    /\ inodes[last.id].size = 3
    /\ DiskReadAt(inodes[last.id], data, 0, 3) = <<2, 2, 1>>
    /\ abort = "none"

\* C10: clear() on a file of any size: the assertion on the number of freed
\* blocks holds, that number is total_blocks(size before), every freed block
\* is back in the allocator, the size is 0, the inode record stays allocated,
\* and a read_at(0, any buffer) that follows transfers no byte.
C10_Clear ==
    [][\A h \in Handles :
        /\ Clear(h)
           => /\ abort' = "none"
              /\ inodes'[HandleId(h)].size = 0
              /\ Len(Unwrap(last'.ret)) = TotalBlocks(inodes[HandleId(h)].size)
              /\ SeqRange(Unwrap(last'.ret)) = SeqRange(inodes[HandleId(h)].blocks)
              /\ used' = used \ SeqRange(inodes[HandleId(h)].blocks)
              /\ DOMAIN inodes' = DOMAIN inodes
              /\ inodes'[HandleId(h)].type = "file"
        /\ \A len \in 0..MaxBufLen :
              (last.op = "clear" /\ last.id = HandleId(h) /\ ReadAt(h, 0, len))
              => last'.ret = Some(<<>>)
      ]_vars

C10_Witness ==
    /\ last.op = "clear"
    /\ Len(Unwrap(last.ret)) = 2
    /\ inodes[last.id].size = 0
    /\ used = SeqRange(Root.blocks)
    /\ abort = "none"


\* C11: a lookup miss is never fatal: find, open without CREATE, sys_linkat
\* with a missing old name, unlink and sys_unlinkat, given a name that is not
\* in the directory, report an empty result or -1, and the kernel does not
\* panic.
C11_MissNotFatal ==
    [][/\ \A name \in Names :
            /\ (Find(name, Root, slots) = None /\ FindCall(name))
               => (last'.ret = None /\ abort' = "none")
            /\ (FirstMatch(name, Root, slots) = 0 /\ Unlink(name))
               => (last'.ret = None /\ abort' = "none")
       /\ \A t \in TaskIds :
            /\ (/\ "CREATE" \notin tasks[t].flags
                /\ tasks[t].inode = None
                /\ SysOpenDo(t))
               => (abort' = "none" /\ tasks'[t] = TaskAt("idle", -1))
            /\ (tasks[t].inode = None /\ SysLinkatDo(t))
               => (abort' = "none" /\ tasks'[t] = TaskAt("idle", -1))
            /\ (tasks[t].inode = None /\ SysUnlinkatUnwrap(t))
               => (abort' = "none" /\ tasks'[t] = TaskAt("idle", -1))
      ]_vars


\* the open file that sys_open has just put in the table wraps `inode`, with
\* its cursor at 0
OpensNext(t, inode) ==
    /\ files' = Append(files, files'[Len(files')])
    /\ files'[Len(files')].inode = inode
    /\ files'[Len(files')].offset = 0
    /\ tasks'[t] = TaskAt("idle", Len(files))

C13_OpenNoCreate ==
    [][\A t \in TaskIds :
        ("CREATE" \notin tasks[t].flags /\ SysOpenDo(t))
        => IF tasks[t].inode = None
           THEN /\ tasks'[t] = TaskAt("idle", -1)
                /\ UNCHANGED <<inodes, slots, data, used, count, abort, files>>
           ELSE /\ OpensNext(t, Unwrap(tasks[t].inode))
                /\ UNCHANGED <<slots, count, abort>>
                /\ IF "TRUNC" \in tasks[t].flags
                   THEN inodes'[HandleId(Unwrap(tasks[t].inode))].size = 0
                   ELSE UNCHANGED <<inodes, data, used>>
      ]_vars

\* the file of three bytes, opened read-only: still three bytes
C13_Witness ==
    /\ files = <<OSInodeNew(TRUE, FALSE, NewHandle(1))>>
    /\ tasks[1] = TaskAt("idle", 0)
    /\ last.op = "find" /\ last.name = <<98>> /\ last.ret = Some(NewHandle(1))
    /\ inodes[1].size = 3
    /\ DiskReadAt(inodes[1], data, 0, 3) = <<1, 1, 2>>


\* C14: the cursor belongs to the open file: a read or a write through one
\* open file leaves the cursor of every other one where it was; the open
\* files of one name stay on one inode, and what a write through one of them
\* put at an offset is what a read through another, its cursor at that
\* offset, gets.
C14_PrivateCursors ==
    [][/\ \A fd \in DOMAIN files :
            (/\ last'.op \in {"read", "read_all", "write"}
             /\ \/ \E lens \in ReadBuffers : OSInodeRead(fd, lens)
                \/ OSInodeReadAll(fd)
                \/ \E buf \in WriteBuffers :
                       Concat(buf) = last'.buf /\ OSInodeWrite(fd, buf))
            => \A g \in DOMAIN files \ {fd} : files'[g] = files[g]
       /\ \A fd \in DOMAIN files : \A g \in DOMAIN files :
            files'[fd].inode = files'[g].inode
       /\ \A g \in DOMAIN files : \A lens \in ReadBuffers :
            (/\ last.op = "write"
             /\ last'.op = "read"
             /\ HandleId(files[g].inode) = last.id
             /\ files[g].offset = last.arg
             /\ SumLens(lens) = Len(last.buf)
             /\ OSInodeRead(g, lens))
            => (last'.buf = last.buf /\ last'.ret = Some(Len(last.buf)))
      ]_vars

\* one open file wrote two bytes at 0, then the other read them at 0
C14_Witness ==
    /\ last.op = "read"
    /\ last.arg = 0
    /\ last.buf = <<2, 2>>
    /\ files[1].offset = 2
    /\ files[2].offset = 2
    /\ files[1].inode = files[2].inode

\* C18: OSInode::read with the cursor at c, the file s bytes long and a buffer
\* of non-empty slices, n bytes in all: it transfers min(n, s - c) bytes when
\* c <= s and none when c >= s, the bytes of the file from c on, moves the
\* cursor by the number transferred, and changes neither content nor size;
\* read_all transfers what lies between the cursor and the end.
C18_OpenFileRead ==
    [][\A fd \in DOMAIN files :
        LET c == files[fd].offset
            di == inodes[HandleId(files[fd].inode)]
            s == di.size
        IN /\ \A lens \in ReadBuffers :
                (last'.op = "read" /\ OSInodeRead(fd, lens))
                => LET k == IF c <= s THEN Min(SumLens(lens), s - c) ELSE 0
                   IN /\ last'.ret = Some(k)
                      /\ last'.buf = [i \in 1..k |-> ByteAt(di, data, c + i - 1)]
                      /\ files'[fd].offset = c + k
                      /\ UNCHANGED <<inodes, data, used, slots, count, abort>>
           /\ (last'.op = "read_all" /\ OSInodeReadAll(fd))
                => LET k == IF c <= s THEN s - c ELSE 0
                   IN /\ last'.buf = [i \in 1..k |-> ByteAt(di, data, c + i - 1)]
                      /\ files'[fd].offset = c + k
                      /\ UNCHANGED <<inodes, data, used, slots, count, abort>>
      ]_vars

\* a read of two slices, three bytes in all, with the cursor one byte into
\* the file of three bytes: two bytes come back
C18_Witness ==
    /\ last.op = "read"
    /\ last.arg = 1
    /\ last.len = 3
    /\ last.ret = Some(2)
    /\ last.buf = <<1, 2>>
    /\ inodes[last.id].size = 3
    /\ \E fd \in DOMAIN files : files[fd].offset = 3

\* C15: when a mutating method (create that adds a slot, hard_link, unlink,
\* write_at, clear) returns, no part of the block cache is dirty, and the
\* returning thread still holds the filesystem lock, so the flush came before
\* the release; the cache is clean whenever the filesystem lock is free.
C15_Durability ==
    [][/\ \A t \in ThreadIds :
            (/\ thr[t].pc = "return"
             /\ thr[t].call.op \in Mutating
             /\ Return(t))
            => (dirty = {} /\ fs_lock = t /\ dirty' = {})
       /\ fs_lock' = 0 => dirty' = {}
      ]_vars

\* write_at has put a byte into the empty file, which took a block, and is
\* about to return with the cache flushed
C15_Witness ==
    /\ thr[1].pc = "return"
    /\ thr[1].call.op = "write_at"
    /\ last.op = "write_at"
    /\ last.ret = Some(1)
    /\ inodes[1].size = 1
    /\ used # {0}
    /\ fs_lock = 1
    /\ dirty = {}

\* a thread between its fs.lock() and its return
InCriticalSection(t) ==
    /\ thr[t].pc \in {"disk_inode", "closure", "sync", "return"}
    /\ thr[t].call.op \notin Unlocked

\* C16: of the threads in find, create, hard_link, unlink, ls, read_at,
\* write_at and clear, at most one is between its fs.lock() and its return;
\* that thread holds the filesystem lock, and until its closure runs the disk
\* state is the one it found when it took the lock, so the closures take
\* effect one after the other in the order the lock was taken.
C16_MutualExclusion ==
    /\ \A t \in ThreadIds : \A u \in ThreadIds :
           (InCriticalSection(t) /\ InCriticalSection(u)) => t = u
    /\ \A t \in ThreadIds :
           InCriticalSection(t) =>
               /\ fs_lock = t
               /\ thr[t].pc \in {"disk_inode", "closure"} => thr[t].seen = Disk

\* thread 1 is about to run the closure of write_at on the file thread 2 has
\* cleared before; thread 2 waits at fs.lock() to clear it again
C16_Witness ==
    /\ thr[1].pc = "closure"
    /\ thr[1].call.op = "write_at"
    /\ thr[2].pc = "fs_lock"
    /\ thr[2].call.op = "clear"
    /\ last.op = "clear"
    /\ fs_lock = 1

\* C17: a thread that takes the lock of a block cache entry holds the
\* filesystem lock, in every Inode method, is_dir and is_file included.
C17_LockOrder ==
    [][\A t \in ThreadIds : \A b \in InodeBlocks :
           (blk_lock[b] # t /\ blk_lock'[b] = t) => fs_lock = t
      ]_vars

\* C19: a write_at whose offset + length is not larger than the size
\* (equal to it included) takes no data block and leaves the inode's size
\* and block list as they were; an inode's size gets smaller only in the
\* closure of clear on that inode.
C19_NoShrink ==
    [][/\ \A t \in ThreadIds :
            LET c == thr[t].call
            IN (/\ thr[t].pc = "closure"
                /\ c.op = "write_at"
                /\ c.arg + Len(c.buf) <= inodes[c.id].size
                /\ Closure(t))
               => /\ used' = used
                  /\ inodes' = inodes
                  /\ last'.ret = Some(Len(c.buf))
       /\ \A id \in DOMAIN inodes :
            inodes'[id].size < inodes[id].size
            => \E t \in ThreadIds :
                   /\ thr[t].pc = "closure"
                   /\ thr[t].call.op = "clear"
                   /\ thr[t].call.id = id
                   /\ thr'[t].pc = "sync"
      ]_vars

\* one byte has been written at offset 0 of a file of two bytes: the size
\* is still 2
C19_Witness ==
    /\ thr[1].pc = "sync"
    /\ thr[1].call.op = "write_at"
    /\ thr[1].call.arg = 0
    /\ last.op = "write_at"
    /\ last.arg = 0
    /\ last.ret = Some(1)
    /\ inodes[1].size = 2
    /\ Len(inodes[1].blocks) = 1
    /\ data[inodes[1].blocks[1]] = <<2, 2>>

\* the thread whose closure runs in this step, if any
RanClosure(t) == thr[t].pc = "closure" /\ thr'[t].pc # "closure"

\* C20: the directory's size is a multiple of DIRENT_SZ and the directory
\* holds size / DIRENT_SZ slots; a create that returns a handle and a
\* hard_link add one slot after the ones there, which stay as they were;
\* find, ls, unlink, a create that returns nothing, read_at, write_at and
\* clear of a file, is_dir and is_file leave the number of slots as it was;
\* it never gets smaller.
C20_DirectoryLayout ==
    [][/\ Root.size % DIRENT_SZ = 0
       /\ Root'.size % DIRENT_SZ = 0
       /\ Len(slots') = Root'.size \div DIRENT_SZ
       /\ Root'.size >= Root.size
       /\ \A t \in ThreadIds :
            RanClosure(t) =>
                IF \/ thr[t].call.op = "create" /\ last'.ret # None
                   \/ thr[t].call.op = "hard_link"
                THEN /\ Root'.size = Root.size + DIRENT_SZ
                     /\ SubSeq(slots', 1, Len(slots)) = slots
                ELSE Root'.size = Root.size
       /\ (\A t \in ThreadIds : ~RanClosure(t)) => Root'.size = Root.size
      ]_vars

\* "b" was unlinked, then "a" created: the tombstone is still in the first
\* slot and the new entry is in a second one
C20_Witness ==
    /\ last.op = "create"
    /\ last.ret = Some(NewHandle(2))
    /\ slots = <<Tombstone, DirEntryNew(<<97>>, 2)>>
    /\ Root.size = 2 * DIRENT_SZ
    /\ thr[1].pc = "sync"

\* the slots whose name is `name`, tombstones included
SlotsNamed(name) ==
    {i \in 1..Len(slots) : DirEntryName(slots[i]) = name}

\* C21: unlink(name, table) overwrites the first slot, in slot order, whose
\* name is `name` with the tombstone and changes the table entry of that
\* slot's inode id only; every other slot, later ones of the same name
\* included, every other table entry, the inodes, the data and the bitmap are
\* as they were; when no slot has the name, nothing changes.
C21_UnlinkFrame ==
    [][\A name \in Names :
        (last'.op = "unlink" /\ Unlink(name))
        => /\ UNCHANGED <<inodes, data, used>>
           /\ IF SlotsNamed(name) = {}
              THEN UNCHANGED <<slots, count, abort>>
              ELSE LET i == CHOOSE k \in SlotsNamed(name) :
                                \A j \in SlotsNamed(name) : k <= j
                       id == slots[i].inode_id
                   IN /\ slots' = [slots EXCEPT ![i] = Tombstone]
                      /\ \A k \in (DOMAIN count \cup DOMAIN count') \ {id} :
                            /\ k \in DOMAIN count
                            /\ k \in DOMAIN count'
                            /\ count'[k] = count[k]
                      /\ abort' = "none" =>
                            /\ id \in DOMAIN count'
                            /\ count'[id] = IF id \in DOMAIN count
                                            THEN AsU32(count[id] - 1) ELSE 0
      ]_vars

\* unlink("a") in a directory with two slots named "a": the first is the
\* tombstone, the second still names inode 1, whose count went from 2 to 1
C21_Witness ==
    /\ last.op = "unlink"
    /\ last.name = <<97>>
    /\ last.ret = Some(1)
    /\ slots = <<Tombstone, DirEntryNew(<<97>>, 1)>>
    /\ count = (1 :> 1)
    /\ abort = "none"

\* C22: the sentinel is never taken for an inode id: find returns no handle
\* for it, and the Hard-Link Table has no entry under it, whatever create,
\* hard_link and unlink calls were made, the empty name included.
C22_SentinelNotInode ==
    /\ U32_MAX \notin DOMAIN count
    /\ (last.op = "find" /\ last.ret # None) => RetId(last) # U32_MAX

----------------------------------------------------------------------------
(* System calls on names that are not empty: sys_open with CREATE set,      *)
(* sys_linkat and sys_unlinkat.                                             *)

\* the OpenFlags that have CREATE set
CreateFlagSets == {flags \in OpenFlagSets : "CREATE" \in flags}

NextNamed ==
    \/ \E t \in TaskIds, name \in NonEmptyNames, flags \in CreateFlagSets :
           SysOpenFind(t, name, flags)
    \/ \E t \in TaskIds : SysOpenDo(t)
    \/ \E t \in TaskIds, old_name \in NonEmptyNames, new_name \in NonEmptyNames :
           SysLinkatFindOld(t, old_name, new_name)
    \/ \E t \in TaskIds : SysLinkatFindNew(t)
    \/ \E t \in TaskIds : SysLinkatDo(t)
    \/ \E t \in TaskIds, name \in NonEmptyNames : SysUnlinkatFind(t, name)
    \/ \E t \in TaskIds : SysUnlinkatUnwrap(t)
    \/ \E t \in TaskIds : SysUnlinkatUnlink(t)
    \/ \E t \in TaskIds : SysUnlinkatNlink(t)
    \/ \E t \in TaskIds : SysUnlinkatClear(t)

(* One task, one call after the other *)
SpecNamed == InitSys /\ [][NextNamed]_vars

\* the slots that are no tombstone and hold the inode id `id`
LiveSlotsOf(id) ==
    {i \in 1..Len(slots) :
        /\ DirEntryInodeId(slots[i]) # U32_MAX
        /\ DirEntryInodeId(slots[i]) = id}

\* C24: with one task making sys_open(CREATE), sys_linkat and sys_unlinkat
\* calls on non-empty names one after the other, from a directory whose
\* inodes have one live slot each and an empty Hard-Link Table, nlink(id) is
\* the number of non-tombstone slots that hold id, for every file inode and
\* every key of the table, whenever the task is between two calls
C24_NlinkIsLiveSlots ==
    (tasks[1].pc = "idle" /\ Running) =>
        /\ \A id \in FileIds \cup DOMAIN count :
               Nlink(id) = Cardinality(LiveSlotsOf(id))
        /\ DOMAIN count \subseteq FileIds

\* a file that was created and never linked has been unlinked: its nlink
\* is 0 and no live slot holds it
C24_Witness ==
    /\ tasks[1].pc = "idle"
    /\ tasks[1].ret = 0
    /\ last.op = "clear"
    /\ \E id \in FileIds :
          /\ last.id = id
          /\ id \in DOMAIN count
          /\ Nlink(id) = 0
          /\ LiveSlotsOf(id) = {}
          /\ \E i \in 1..Len(slots) : slots[i] = Tombstone

----------------------------------------------------------------------------
(* Two tasks make system calls; a task can be switched out between any two  *)
(* Inode method or table calls of its system call. The directory holds one  *)
(* file, empty or of one byte.                                              *)

OneByteImage ==
    /\ inodes = (ROOT_ID :> [type |-> "dir", size |-> DIRENT_SZ, blocks |-> <<0>>])
                 @@ (1 :> [type |-> "file", size |-> 1, blocks |-> <<1>>])
    /\ slots = <<DirEntryNew(<<98>>, 1)>>
    /\ used = {0, 1}
    /\ data = [b \in 0..(NumDataBlocks - 1) |-> [j \in 1..BLOCK_SZ |->
                  IF b = 1 /\ j = 1 THEN 1 ELSE 0]]

InitTasks ==
    /\ \/ /\ OneFileImage
          /\ data = [b \in 0..(NumDataBlocks - 1) |-> [j \in 1..BLOCK_SZ |-> 0]]
       \/ OneByteImage
    /\ count = <<>>
    /\ abort = "none"
    /\ files = <<>>
    /\ tasks = [t \in TaskIds |-> TaskAt("idle", 0)]
    /\ LocksFree
    /\ trail = <<>>
    /\ last = NoCall

\* task 1 links names, task 2 opens with CREATE and unlinks
NextTasks ==
    \/ \E name \in NonEmptyNames, flags \in CreateFlagSets :
           SysOpenFind(2, name, flags)
    \/ SysOpenDo(2)
    \/ \E old_name \in NonEmptyNames, new_name \in NonEmptyNames :
           SysLinkatFindOld(1, old_name, new_name)
    \/ SysLinkatFindNew(1)
    \/ SysLinkatDo(1)
    \/ \E name \in NonEmptyNames : SysUnlinkatFind(2, name)
    \/ SysUnlinkatUnwrap(2)
    \/ SysUnlinkatUnlink(2)
    \/ SysUnlinkatNlink(2)
    \/ SysUnlinkatClear(2)

SpecTasks == InitTasks /\ [][NextTasks]_vars

\* C25: with the calls of two tasks interleaved, sys_unlinkat clears an
\* inode only if no non-tombstone slot holds that inode at the moment of
\* the clear
C25_ClearOnlyUnreferenced ==
    [][\A t \in TaskIds :
         (/\ Running
          /\ tasks[t].pc = "unlinkat_clear"
          /\ tasks'[t].pc = "idle"
          /\ tasks[t].cnt = 0)
         => LiveSlotsOf(HandleId(Unwrap(tasks[t].inode))) = {}
      ]_vars

\* live slots are the directory entries that are no tombstone
LiveSlots == {i \in 1..Len(slots) : DirEntryInodeId(slots[i]) # U32_MAX}

\* C26: with the calls of two tasks interleaved, from a directory without
\* duplicate live names, no two non-tombstone slots carry the same name
C26_UniqueNames ==
    \A i \in LiveSlots, j \in LiveSlots :
        DirEntryName(slots[i]) = DirEntryName(slots[j]) => i = j

\* C27: in every sequence of create, hard_link and unlink calls on the root
\* handle, with any names, no unlink decrements a Hard-Link Table entry
\* whose value is 0
C27_NoUnderflow ==
    [][(/\ last'.op = "unlink"
        /\ last'.ret # None
        /\ last'.arg \in DOMAIN count)
       => count[last'.arg] # 0
      ]_vars

====
